---- MODULE Spec2Model ----
(***************************************************************************)
(* Model of the inventory AVL tree of "Proyecto AVL" (models/avl.py):      *)
(* class NodoAVL, class AVLTree and the operations the GUI calls on it.    *)
(* A tree is a nested record; every recursive method of AVLTree is a       *)
(* RECURSIVE operator that returns what the method returns together with   *)
(* the side effects it has (rotation events, rotation descriptions).       *)
(***************************************************************************)
EXTENDS Integers, Sequences, FiniteSets, TLC

(* ----------------------------- bounds ---------------------------------- *)
\* Keys are 1..MaxKey.
MaxKey == 4

Keys == 1..MaxKey

\* The keys of the runs that look below the root of the tree.
MaxClaveEstructura == 6

ClavesEstructura == 1..MaxClaveEstructura

\* The keys of the save-and-reload runs: enough for a tree of seven records.
MaxClaveSnapshot == 7

ClavesSnapshot == 1..MaxClaveSnapshot

(* ----------------------------- NodoAVL --------------------------------- *)
\* Python's None in a child slot or in raiz.
Nil == [nil |-> TRUE]

\* Python's None / a value for an optional argument: <<>> or <<v>>.
None == <<>>
Some(v) == <<v>>

\* Variant: the constructor stores quantity and price in each other's field.
NodoAVL_campos(clave, nombre, cantidad, precio, categoria) ==
    [clave |-> clave, nombre |-> nombre, cantidad |-> precio,
     precio |-> cantidad, categoria |-> categoria,
     altura |-> 1, izquierda |-> [nil |-> TRUE], derecha |-> [nil |-> TRUE]]

NodoAVL(clave, nombre, cantidad, precio, categoria) ==
    [clave |-> clave, nombre |-> nombre, cantidad |-> cantidad,
     precio |-> precio, categoria |-> categoria,
     altura |-> 1, izquierda |-> Nil, derecha |-> Nil]

\* The dict every query builds from a node.
Registro(nodo) ==
    [clave |-> nodo.clave, nombre |-> nodo.nombre, cantidad |-> nodo.cantidad,
     precio |-> nodo.precio, categoria |-> nodo.categoria]

Max(a, b) == IF a >= b THEN a ELSE b

obtener_altura(nodo) == IF nodo = Nil THEN 0 ELSE nodo.altura

obtener_balance(nodo) ==
    IF nodo = Nil THEN 0
    ELSE obtener_altura(nodo.izquierda) - obtener_altura(nodo.derecha)

(* ----------------------------- rotations ------------------------------- *)
\* What rotation_callback receives: (kind, outer key, inner key).
Evento(tipo, y, x) == [tipo |-> tipo, outer |-> y, inner |-> x]

\* Variant: the height of y is not recomputed after the pointer changes.
rotacion_derecha_sin_altura_y(y) ==
    LET x  == y.izquierda
        T2 == x.derecha
        y1 == [y EXCEPT !.izquierda = T2]
        x1 == [x EXCEPT !.derecha = y1]
    IN  [x1 EXCEPT !.altura = 1 + Max(obtener_altura(x1.izquierda),
                                      obtener_altura(x1.derecha))]

\* The new subtree root rotacion_derecha(y) returns.
rotacion_derecha(y) ==
    LET x  == y.izquierda
        T2 == x.derecha
        y1 == [y EXCEPT !.izquierda = T2]
        y2 == [y1 EXCEPT !.altura = 1 + Max(obtener_altura(y1.izquierda),
                                            obtener_altura(y1.derecha))]
        x1 == [x EXCEPT !.derecha = y2]
    IN  [x1 EXCEPT !.altura = 1 + Max(obtener_altura(x1.izquierda),
                                      obtener_altura(x1.derecha))]

\* Variant: the event names the child as the outer node.
rotacion_derecha_evento_invertido(y) ==
    Evento("rotacion_derecha", y.izquierda.clave, y.clave)

\* The event rotacion_derecha(y) hands to the callback before it rotates.
rotacion_derecha_evento(y) == Evento("rotacion_derecha", y.clave, y.izquierda.clave)

\* Variant: the new root's height is recomputed before its child's.
rotacion_izquierda_alturas(x) ==
    LET y  == x.derecha
        T2 == y.izquierda
        x1 == [x EXCEPT !.derecha = T2]
        y1 == [y EXCEPT !.izquierda = x1]
        y2 == [y1 EXCEPT !.altura = 1 + Max(obtener_altura(y1.izquierda),
                                            obtener_altura(y1.derecha))]
        x2 == [x1 EXCEPT !.altura = 1 + Max(obtener_altura(x1.izquierda),
                                            obtener_altura(x1.derecha))]
    IN  [y2 EXCEPT !.izquierda = x2]

rotacion_izquierda(x) ==
    LET y  == x.derecha
        T2 == y.izquierda
        x1 == [x EXCEPT !.derecha = T2]
        x2 == [x1 EXCEPT !.altura = 1 + Max(obtener_altura(x1.izquierda),
                                            obtener_altura(x1.derecha))]
        y1 == [y EXCEPT !.izquierda = x2]
    IN  [y1 EXCEPT !.altura = 1 + Max(obtener_altura(y1.izquierda),
                                      obtener_altura(y1.derecha))]

rotacion_izquierda_evento(x) == Evento("rotacion_izquierda", x.clave, x.derecha.clave)

(* ----------------------------- _insertar ------------------------------- *)
\* Result of a recursive mutation: the new subtree root, the rotations
\* executed (in order) and the descriptions appended to rotations_performed.
Res(nodo, rot, perf) == [nodo |-> nodo, rot |-> rot, perf |-> perf]

\* Variant: a node is rebalanced as soon as it leans to one side.
RebalanceoInsertar_umbral(nodo, clave, rot) ==
    LET n == [nodo EXCEPT !.altura = 1 + Max(obtener_altura(nodo.izquierda),
                                             obtener_altura(nodo.derecha))]
        balance == obtener_balance(n)
    IN  IF balance > 0 /\ clave < n.izquierda.clave
        THEN Res(rotacion_derecha(n), Append(rot, rotacion_derecha_evento(n)), <<>>)
        ELSE IF balance < 0 /\ clave > n.derecha.clave
        THEN Res(rotacion_izquierda(n), Append(rot, rotacion_izquierda_evento(n)), <<>>)
        ELSE IF balance > 1 /\ clave > n.izquierda.clave
        THEN LET n1 == [n EXCEPT !.izquierda = rotacion_izquierda(n.izquierda)]
             IN  Res(rotacion_derecha(n1),
                     rot \o <<rotacion_izquierda_evento(n.izquierda),
                              rotacion_derecha_evento(n1)>>, <<>>)
        ELSE IF balance < -1 /\ clave < n.derecha.clave
        THEN LET n1 == [n EXCEPT !.derecha = rotacion_derecha(n.derecha)]
             IN  Res(rotacion_izquierda(n1),
                     rot \o <<rotacion_derecha_evento(n.derecha),
                              rotacion_izquierda_evento(n1)>>, <<>>)
        ELSE Res(n, rot, <<>>)

\* Variant: the Derecha Derecha case is missing.
RebalanceoInsertar_sin_DD(nodo, clave, rot) ==
    LET n == [nodo EXCEPT !.altura = 1 + Max(obtener_altura(nodo.izquierda),
                                             obtener_altura(nodo.derecha))]
        balance == obtener_balance(n)
    IN  IF balance > 1 /\ clave < n.izquierda.clave
        THEN Res(rotacion_derecha(n), Append(rot, rotacion_derecha_evento(n)), <<>>)
        ELSE Res(n, rot, <<>>)

\* Variant: the Izquierda Derecha case rotates the node only.
RebalanceoInsertar_ID_simple(nodo, clave, rot) ==
    LET n == [nodo EXCEPT !.altura = 1 + Max(obtener_altura(nodo.izquierda),
                                             obtener_altura(nodo.derecha))]
        balance == obtener_balance(n)
    IN  IF balance > 1
        THEN Res(rotacion_derecha(n), Append(rot, rotacion_derecha_evento(n)), <<>>)
        ELSE IF balance < -1
        THEN Res(rotacion_izquierda(n), Append(rot, rotacion_izquierda_evento(n)), <<>>)
        ELSE Res(n, rot, <<>>)

RebalanceoInsertar(nodo, clave, rot) ==
    LET n == [nodo EXCEPT !.altura = 1 + Max(obtener_altura(nodo.izquierda),
                                             obtener_altura(nodo.derecha))]
        balance == obtener_balance(n)
    IN  IF balance > 1 /\ clave < n.izquierda.clave
        THEN Res(rotacion_derecha(n), Append(rot, rotacion_derecha_evento(n)), <<>>)
        ELSE IF balance < -1 /\ clave > n.derecha.clave
        THEN Res(rotacion_izquierda(n), Append(rot, rotacion_izquierda_evento(n)), <<>>)
        ELSE IF balance > 1 /\ clave > n.izquierda.clave
        THEN LET n1 == [n EXCEPT !.izquierda = rotacion_izquierda(n.izquierda)]
             IN  Res(rotacion_derecha(n1),
                     rot \o <<rotacion_izquierda_evento(n.izquierda),
                              rotacion_derecha_evento(n1)>>, <<>>)
        ELSE IF balance < -1 /\ clave < n.derecha.clave
        THEN LET n1 == [n EXCEPT !.derecha = rotacion_derecha(n.derecha)]
             IN  Res(rotacion_izquierda(n1),
                     rot \o <<rotacion_derecha_evento(n.derecha),
                              rotacion_izquierda_evento(n1)>>, <<>>)
        ELSE Res(n, rot, <<>>)

\* Variant: a plain BST insert; heights are kept but nothing is rotated.
RECURSIVE _insertar_sin_rebalanceo(_, _, _, _, _, _)
_insertar_sin_rebalanceo(nodo, clave, nombre, cantidad, precio, categoria) ==
    IF nodo = Nil
    THEN Res(NodoAVL(clave, nombre, cantidad, precio, categoria), <<>>, <<>>)
    ELSE LET r == IF clave < nodo.clave
                  THEN _insertar_sin_rebalanceo(nodo.izquierda, clave, nombre,
                                                cantidad, precio, categoria)
                  ELSE _insertar_sin_rebalanceo(nodo.derecha, clave, nombre,
                                                cantidad, precio, categoria)
             n == IF clave < nodo.clave THEN [nodo EXCEPT !.izquierda = r.nodo]
                  ELSE [nodo EXCEPT !.derecha = r.nodo]
         IN  Res([n EXCEPT !.altura = 1 + Max(obtener_altura(n.izquierda),
                                              obtener_altura(n.derecha))],
                 <<>>, <<>>)

RECURSIVE _insertar(_, _, _, _, _, _)
_insertar(nodo, clave, nombre, cantidad, precio, categoria) ==
    IF nodo = Nil
    THEN Res(NodoAVL(clave, nombre, cantidad, precio, categoria), <<>>, <<>>)
    ELSE IF clave < nodo.clave
    THEN LET r == _insertar(nodo.izquierda, clave, nombre, cantidad, precio, categoria)
         IN  RebalanceoInsertar([nodo EXCEPT !.izquierda = r.nodo], clave, r.rot)
    ELSE IF clave > nodo.clave
    THEN LET r == _insertar(nodo.derecha, clave, nombre, cantidad, precio, categoria)
         IN  RebalanceoInsertar([nodo EXCEPT !.derecha = r.nodo], clave, r.rot)
    ELSE Res([nodo EXCEPT !.nombre = nombre, !.cantidad = cantidad,
                          !.precio = precio, !.categoria = categoria], <<>>, <<>>)

(* ----------------------------- _eliminar ------------------------------- *)
\* Variant: the loop to the leftmost node is missing.
min_valor_nodo_sin_bucle(nodo) == nodo

RECURSIVE min_valor_nodo(_)
min_valor_nodo(nodo) ==
    IF nodo.izquierda # Nil THEN min_valor_nodo(nodo.izquierda) ELSE nodo

\* f"Rotación Derecha en nodo {k}" / f"Rotación Izquierda en nodo {k}"
Descripcion(tipo, k) == [texto |-> tipo, clave |-> k]

\* Variant: the height is recomputed but no case rotates.
RebalanceoEliminar_sin_rotar(nodo, rot, perf) ==
    Res([nodo EXCEPT !.altura = 1 + Max(obtener_altura(nodo.izquierda),
                                        obtener_altura(nodo.derecha))], rot, perf)

\* Variant: a left-heavy node rotates right as soon as its balance is 1.
RebalanceoEliminar_umbral(nodo, rot, perf) ==
    LET n == [nodo EXCEPT !.altura = 1 + Max(obtener_altura(nodo.izquierda),
                                             obtener_altura(nodo.derecha))]
    IN  IF obtener_balance(n) >= 1
        THEN Res(rotacion_derecha(n),
                 Append(rot, rotacion_derecha_evento(n)),
                 Append(perf, Descripcion("Rotacion Derecha", n.clave)))
        ELSE Res(n, rot, perf)

\* Variant: a child with balance 0 sends the node to the double rotation.
RebalanceoEliminar_empate(nodo, rot, perf) ==
    LET n == [nodo EXCEPT !.altura = 1 + Max(obtener_altura(nodo.izquierda),
                                             obtener_altura(nodo.derecha))]
        balance == obtener_balance(n)
    IN  IF balance > 1 /\ obtener_balance(n.izquierda) > 0
        THEN Res(rotacion_derecha(n),
                 Append(rot, rotacion_derecha_evento(n)),
                 Append(perf, Descripcion("Rotacion Derecha", n.clave)))
        ELSE IF balance > 1
        THEN LET n1 == [n EXCEPT !.izquierda = rotacion_izquierda(n.izquierda)]
             IN  Res(rotacion_derecha(n1),
                     rot \o <<rotacion_izquierda_evento(n.izquierda),
                              rotacion_derecha_evento(n1)>>,
                     perf \o <<Descripcion("Rotacion Izquierda", n.izquierda.clave),
                               Descripcion("Rotacion Derecha", n.clave)>>)
        ELSE IF balance < -1 /\ obtener_balance(n.derecha) < 0
        THEN Res(rotacion_izquierda(n),
                 Append(rot, rotacion_izquierda_evento(n)),
                 Append(perf, Descripcion("Rotacion Izquierda", n.clave)))
        ELSE IF balance < -1
        THEN LET n1 == [n EXCEPT !.derecha = rotacion_derecha(n.derecha)]
             IN  Res(rotacion_izquierda(n1),
                     rot \o <<rotacion_derecha_evento(n.derecha),
                              rotacion_izquierda_evento(n1)>>,
                     perf \o <<Descripcion("Rotacion Derecha", n.derecha.clave),
                               Descripcion("Rotacion Izquierda", n.clave)>>)
        ELSE Res(n, rot, perf)

RebalanceoEliminar(nodo, rot, perf) ==
    LET n == [nodo EXCEPT !.altura = 1 + Max(obtener_altura(nodo.izquierda),
                                             obtener_altura(nodo.derecha))]
        balance == obtener_balance(n)
    IN  IF balance > 1 /\ obtener_balance(n.izquierda) >= 0
        THEN Res(rotacion_derecha(n),
                 Append(rot, rotacion_derecha_evento(n)),
                 Append(perf, Descripcion("Rotacion Derecha", n.clave)))
        ELSE IF balance > 1 /\ obtener_balance(n.izquierda) < 0
        THEN LET n1 == [n EXCEPT !.izquierda = rotacion_izquierda(n.izquierda)]
             IN  Res(rotacion_derecha(n1),
                     rot \o <<rotacion_izquierda_evento(n.izquierda),
                              rotacion_derecha_evento(n1)>>,
                     perf \o <<Descripcion("Rotacion Izquierda", n.izquierda.clave),
                               Descripcion("Rotacion Derecha", n.clave)>>)
        ELSE IF balance < -1 /\ obtener_balance(n.derecha) <= 0
        THEN Res(rotacion_izquierda(n),
                 Append(rot, rotacion_izquierda_evento(n)),
                 Append(perf, Descripcion("Rotacion Izquierda", n.clave)))
        ELSE IF balance < -1 /\ obtener_balance(n.derecha) > 0
        THEN LET n1 == [n EXCEPT !.derecha = rotacion_derecha(n.derecha)]
             IN  Res(rotacion_izquierda(n1),
                     rot \o <<rotacion_derecha_evento(n.derecha),
                              rotacion_izquierda_evento(n1)>>,
                     perf \o <<Descripcion("Rotacion Derecha", n.derecha.clave),
                               Descripcion("Rotacion Izquierda", n.clave)>>)
        ELSE Res(n, rot, perf)

\* Variant: the two-children case copies the successor's key but not the
\* rest of its record.
RECURSIVE _eliminar_sin_copiar(_, _)
_eliminar_sin_copiar(nodo, clave) ==
    IF nodo = Nil THEN Res(nodo, <<>>, <<>>)
    ELSE IF clave < nodo.clave
    THEN LET r == _eliminar_sin_copiar(nodo.izquierda, clave)
         IN  RebalanceoEliminar([nodo EXCEPT !.izquierda = r.nodo], r.rot, r.perf)
    ELSE IF clave > nodo.clave
    THEN LET r == _eliminar_sin_copiar(nodo.derecha, clave)
         IN  RebalanceoEliminar([nodo EXCEPT !.derecha = r.nodo], r.rot, r.perf)
    ELSE IF nodo.izquierda = Nil THEN Res(nodo.derecha, <<>>, <<>>)
    ELSE IF nodo.derecha = Nil THEN Res(nodo.izquierda, <<>>, <<>>)
    ELSE LET temp == min_valor_nodo(nodo.derecha)
             r == _eliminar_sin_copiar(nodo.derecha, temp.clave)
         IN  RebalanceoEliminar([nodo EXCEPT !.clave = temp.clave, !.derecha = r.nodo],
                                r.rot, r.perf)

RECURSIVE _eliminar(_, _)
_eliminar(nodo, clave) ==
    IF nodo = Nil THEN Res(nodo, <<>>, <<>>)
    ELSE IF clave < nodo.clave
    THEN LET r == _eliminar(nodo.izquierda, clave)
         IN  RebalanceoEliminar([nodo EXCEPT !.izquierda = r.nodo], r.rot, r.perf)
    ELSE IF clave > nodo.clave
    THEN LET r == _eliminar(nodo.derecha, clave)
         IN  RebalanceoEliminar([nodo EXCEPT !.derecha = r.nodo], r.rot, r.perf)
    ELSE IF nodo.izquierda = Nil THEN Res(nodo.derecha, <<>>, <<>>)
    ELSE IF nodo.derecha = Nil THEN Res(nodo.izquierda, <<>>, <<>>)
    ELSE LET temp == min_valor_nodo(nodo.derecha)
             r == _eliminar(nodo.derecha, temp.clave)
         IN  RebalanceoEliminar(
                 [nodo EXCEPT !.clave = temp.clave, !.nombre = temp.nombre,
                              !.cantidad = temp.cantidad, !.precio = temp.precio,
                              !.categoria = temp.categoria, !.derecha = r.nodo],
                 r.rot, r.perf)

\* The node _eliminar(nodo, clave) holds when it reaches its rebalancing part:
\* the recursive call below it has returned, its own height is not yet
\* recomputed. Nil when the call returns before that part.
_eliminar_antes_de_balancear(nodo, clave) ==
    IF nodo = Nil THEN Nil
    ELSE IF clave < nodo.clave
    THEN [nodo EXCEPT !.izquierda = _eliminar(nodo.izquierda, clave).nodo]
    ELSE IF clave > nodo.clave
    THEN [nodo EXCEPT !.derecha = _eliminar(nodo.derecha, clave).nodo]
    ELSE IF nodo.izquierda = Nil \/ nodo.derecha = Nil THEN Nil
    ELSE LET temp == min_valor_nodo(nodo.derecha)
         IN  [nodo EXCEPT !.clave = temp.clave, !.nombre = temp.nombre,
                          !.cantidad = temp.cantidad, !.precio = temp.precio,
                          !.categoria = temp.categoria,
                          !.derecha = _eliminar(nodo.derecha, temp.clave).nodo]

(* ----------------------------- queries --------------------------------- *)
\* buscar returns the pair (dict or None, camino).
\* Variant: the descent takes the wrong side.
RECURSIVE _buscar_invertido(_, _, _)
_buscar_invertido(nodo, clave, camino) ==
    IF nodo = Nil THEN [resultado |-> Nil, camino |-> camino]
    ELSE LET camino1 == Append(camino, nodo.clave)
         IN  IF clave = nodo.clave
             THEN [resultado |-> Registro(nodo), camino |-> camino1]
             ELSE IF clave < nodo.clave
             THEN _buscar_invertido(nodo.derecha, clave, camino1)
             ELSE _buscar_invertido(nodo.izquierda, clave, camino1)

\* Variant: the node that matches is not put on the path.
RECURSIVE _buscar_sin_destino(_, _, _)
_buscar_sin_destino(nodo, clave, camino) ==
    IF nodo = Nil THEN [resultado |-> Nil, camino |-> camino]
    ELSE IF clave = nodo.clave
    THEN [resultado |-> Registro(nodo), camino |-> camino]
    ELSE IF clave < nodo.clave
    THEN _buscar_sin_destino(nodo.izquierda, clave, Append(camino, nodo.clave))
    ELSE _buscar_sin_destino(nodo.derecha, clave, Append(camino, nodo.clave))

RECURSIVE _buscar(_, _, _)
_buscar(nodo, clave, camino) ==
    IF nodo = Nil THEN [resultado |-> Nil, camino |-> camino]
    ELSE LET camino1 == Append(camino, nodo.clave)
         IN  IF clave = nodo.clave
             THEN [resultado |-> Registro(nodo), camino |-> camino1]
             ELSE IF clave < nodo.clave
             THEN _buscar(nodo.izquierda, clave, camino1)
             ELSE _buscar(nodo.derecha, clave, camino1)

buscar(arbol, clave) == _buscar(arbol, clave, <<>>)

\* Variant: the node is appended before its left subtree is walked.
RECURSIVE _in_order_traversal_preorden(_, _)
_in_order_traversal_preorden(nodo, elementos) ==
    IF nodo = Nil THEN elementos
    ELSE _in_order_traversal_preorden(nodo.derecha,
             _in_order_traversal_preorden(nodo.izquierda,
                                          Append(elementos, Registro(nodo))))

RECURSIVE _in_order_traversal(_, _)
_in_order_traversal(nodo, elementos) ==
    IF nodo = Nil THEN elementos
    ELSE _in_order_traversal(nodo.derecha,
             Append(_in_order_traversal(nodo.izquierda, elementos), Registro(nodo)))

in_order_traversal(arbol) == _in_order_traversal(arbol, <<>>)

\* The two lists the recursion appends to, threaded through the calls.
RECURSIVE _buscar_por_rango_precios(_, _, _, _, _)
_buscar_por_rango_precios(nodo, precio_min, precio_max, resultados, camino_busqueda) ==
    IF nodo = Nil
    THEN [resultados |-> resultados, camino |-> camino_busqueda]
    ELSE LET c1 == Append(camino_busqueda, nodo.clave)
             r1 == IF precio_min <= nodo.precio /\ nodo.precio <= precio_max
                   THEN Append(resultados, Registro(nodo)) ELSE resultados
             izq == IF precio_min < nodo.precio
                    THEN _buscar_por_rango_precios(nodo.izquierda, precio_min,
                                                   precio_max, r1, c1)
                    ELSE [resultados |-> r1, camino |-> c1]
         IN  IF precio_max > nodo.precio
             THEN _buscar_por_rango_precios(nodo.derecha, precio_min, precio_max,
                                            izq.resultados, izq.camino)
             ELSE izq

buscar_por_rango_precios(arbol, precio_min, precio_max) ==
    _buscar_por_rango_precios(arbol, precio_min, precio_max, <<>>, <<>>)

\* sorted(resultados, key=clave): a stable insertion sort by key.
RECURSIVE sorted_por_clave(_)
sorted_por_clave(resultados) ==
    IF resultados = <<>> THEN <<>>
    ELSE LET n == Len(resultados)
             x == resultados[n]
             s == sorted_por_clave(SubSeq(resultados, 1, n - 1))
             i == Cardinality({j \in 1..Len(s) : s[j].clave <= x.clave})
         IN  SubSeq(s, 1, i) \o <<x>> \o SubSeq(s, i + 1, Len(s))

\* cumple_criterios of _busqueda_combinada_recursiva for one node.
cumple_criterios(nodo, precio_min, precio_max, categoria) ==
    /\ ~(precio_min # None /\ nodo.precio < precio_min[1])
    /\ ~(precio_max # None /\ nodo.precio > precio_max[1])
    /\ ~(categoria # None /\ nodo.categoria # categoria[1])

RECURSIVE _busqueda_combinada_recursiva(_, _, _, _, _, _)
_busqueda_combinada_recursiva(nodo, precio_min, precio_max, categoria, resultados, camino_busqueda) ==
    IF nodo = Nil
    THEN [resultados |-> resultados, camino |-> camino_busqueda]
    ELSE LET c1 == Append(camino_busqueda, nodo.clave)
             izq == IF precio_min = None \/ nodo.precio >= precio_min[1]
                    THEN _busqueda_combinada_recursiva(nodo.izquierda, precio_min,
                             precio_max, categoria, resultados, c1)
                    ELSE [resultados |-> resultados, camino |-> c1]
             r1 == IF cumple_criterios(nodo, precio_min, precio_max, categoria)
                   THEN Append(izq.resultados, Registro(nodo))
                   ELSE izq.resultados
         IN  IF precio_max = None \/ nodo.precio <= precio_max[1]
             THEN _busqueda_combinada_recursiva(nodo.derecha, precio_min,
                      precio_max, categoria, r1, izq.camino)
             ELSE [resultados |-> r1, camino |-> izq.camino]

busqueda_combinada(arbol, precio_min, precio_max, categoria) ==
    LET b == _busqueda_combinada_recursiva(arbol, precio_min, precio_max,
                                           categoria, <<>>, <<>>)
    IN  [resultados |-> sorted_por_clave(b.resultados), camino |-> b.camino]

\* Variant: a node is put on the path only when its category matches.
RECURSIVE _buscar_por_categoria_recursivo_camino(_, _, _, _)
_buscar_por_categoria_recursivo_camino(nodo, categoria, resultados, camino_busqueda) ==
    IF nodo = Nil
    THEN [resultados |-> resultados, camino |-> camino_busqueda]
    ELSE LET c1 == IF nodo.categoria = categoria
                   THEN Append(camino_busqueda, nodo.clave) ELSE camino_busqueda
             izq == _buscar_por_categoria_recursivo_camino(nodo.izquierda, categoria,
                                                           resultados, c1)
             r1 == IF nodo.categoria = categoria
                   THEN Append(izq.resultados, Registro(nodo))
                   ELSE izq.resultados
         IN  _buscar_por_categoria_recursivo_camino(nodo.derecha, categoria, r1,
                                                    izq.camino)

RECURSIVE _buscar_por_categoria_recursivo(_, _, _, _)
_buscar_por_categoria_recursivo(nodo, categoria, resultados, camino_busqueda) ==
    IF nodo = Nil
    THEN [resultados |-> resultados, camino |-> camino_busqueda]
    ELSE LET c1 == Append(camino_busqueda, nodo.clave)
             izq == _buscar_por_categoria_recursivo(nodo.izquierda, categoria,
                                                    resultados, c1)
             r1 == IF nodo.categoria = categoria
                   THEN Append(izq.resultados, Registro(nodo))
                   ELSE izq.resultados
         IN  _buscar_por_categoria_recursivo(nodo.derecha, categoria, r1, izq.camino)

\* The categories buscar_por_categoria accepts.
categorias_validas == {"Hogar", "Cocina", "Electrodomesticos", "Deportes"}

\* Variant: the category is not validated.
buscar_por_categoria_sin_validar(arbol, categoria) ==
    LET b == _buscar_por_categoria_recursivo(arbol, categoria, <<>>, <<>>)
    IN  [error |-> FALSE, resultados |-> sorted_por_clave(b.resultados),
         camino |-> b.camino]

\* buscar_por_categoria: error is TRUE when it raises, and then nothing is
\* returned.
buscar_por_categoria(arbol, categoria) ==
    IF categoria \notin categorias_validas
    THEN [error |-> TRUE, resultados |-> <<>>, camino |-> <<>>]
    ELSE LET b == _buscar_por_categoria_recursivo(arbol, categoria, <<>>, <<>>)
         IN  [error |-> FALSE, resultados |-> sorted_por_clave(b.resultados),
              camino |-> b.camino]

(* ----------------------------- state ----------------------------------- *)
VARIABLES
    raiz,                \* AVLTree.raiz
    rotation_callback,   \* TRUE when a callback is registered
    json_file,           \* AVLTree.json_file: None or a path
    rotations_performed, \* AVLTree.rotations_performed
    disco,               \* the file system: path -> content of the file
    ult                  \* the last call: its name, its result and its effects

vars == <<raiz, rotation_callback, json_file, rotations_performed, disco, ult>>

Rutas == {"inv.json"}

\* A path with no file behind it, and a file holding the JSON list datos.
NoFile == [existe |-> FALSE, datos |-> <<>>]
Archivo(datos) == [existe |-> TRUE, datos |-> datos]

Init ==
    /\ raiz = Nil
    /\ rotation_callback = FALSE
    /\ json_file = None
    /\ rotations_performed = <<>>
    /\ disco = [r \in Rutas |-> NoFile]
    /\ ult = [op |-> "init"]

\* The events the callback receives for the rotations a call executes.
Entregados(rot) == IF rotation_callback THEN rot ELSE <<>>

\* How many children the node with this key has (-1: no such node); recorded
\* with a call so that the case it took can be told afterwards.
Hijos(arbol, clave) ==
    LET RECURSIVE baja(_, _)
        baja(nodo, k) == IF nodo = Nil \/ nodo.clave = k THEN nodo
                         ELSE IF k < nodo.clave THEN baja(nodo.izquierda, k)
                         ELSE baja(nodo.derecha, k)
        n == baja(arbol, clave)
    IN  IF n = Nil THEN -1
        ELSE (IF n.izquierda = Nil THEN 0 ELSE 1) + (IF n.derecha = Nil THEN 0 ELSE 1)

(* ----------------------------- persistence ----------------------------- *)
\* Variant: with no destination the save falls back to a fixed file.
guardar_en_json_por_omision(jf, d, arbol, archivo_json) ==
    LET jf1 == IF archivo_json # None THEN archivo_json
               ELSE IF jf # None THEN jf ELSE <<"inv.json">>
    IN  [json_file |-> jf1,
         disco |-> [d EXCEPT ![jf1[1]] = [existe |-> TRUE, datos |-> <<>>]],
         error |-> FALSE, escrituras |-> 1]

\* guardar_en_json as a function of (json_file, disco, tree, argument):
\* the new json_file, the new disk, whether it raised, the files written.
guardar_en_json(jf, d, arbol, archivo_json) ==
    LET jf1 == IF archivo_json # None THEN archivo_json ELSE jf
    IN  IF jf1 = None
        THEN [json_file |-> jf1, disco |-> d, error |-> TRUE, escrituras |-> 0]
        ELSE [json_file |-> jf1,
              disco |-> [d EXCEPT ![jf1[1]] = Archivo(in_order_traversal(arbol))],
              error |-> FALSE, escrituras |-> 1]

\* Variant: the snapshot is not rewritten after a mutation.
_actualizar_json_sin_guardar(jf, d, arbol) ==
    [json_file |-> jf, disco |-> d, error |-> FALSE, escrituras |-> 0]

_actualizar_json(jf, d, arbol) ==
    IF jf # None
    THEN guardar_en_json(jf, d, arbol, None)
    ELSE [json_file |-> jf, disco |-> d, error |-> FALSE, escrituras |-> 0]

(* ----------------------------- operations ------------------------------ *)
SetRotationCallback ==
    /\ rotation_callback' = TRUE
    /\ ult' = [op |-> "set_rotation_callback"]
    /\ UNCHANGED <<raiz, json_file, rotations_performed, disco>>

SetJsonFile(file_path) ==
    /\ json_file' = Some(file_path)
    /\ ult' = [op |-> "set_json_file"]
    /\ UNCHANGED <<raiz, rotation_callback, rotations_performed, disco>>

\* Variant: the preliminary buscar is missing, so _insertar's update-in-place
\* branch is reached.
Insertar_sin_verificar(clave, nombre, cantidad, precio, categoria) ==
    LET r == _insertar(raiz, clave, nombre, cantidad, precio, categoria)
        g == _actualizar_json(json_file, disco, r.nodo)
    IN  /\ raiz' = r.nodo
        /\ disco' = g.disco
        /\ ult' = [op |-> "insertar", error |-> FALSE,
                   rot |-> r.rot, eventos |-> Entregados(r.rot),
                   escrituras |-> g.escrituras]
        /\ UNCHANGED <<rotation_callback, json_file, rotations_performed>>

Insertar(clave, nombre, cantidad, precio, categoria) ==
    IF buscar(raiz, clave).resultado # Nil
    THEN /\ ult' = [op |-> "insertar", error |-> TRUE,
                    rot |-> <<>>, eventos |-> <<>>, escrituras |-> 0]
         /\ UNCHANGED <<raiz, rotation_callback, json_file,
                        rotations_performed, disco>>
    ELSE LET r == _insertar(raiz, clave, nombre, cantidad, precio, categoria)
             g == _actualizar_json(json_file, disco, r.nodo)
         IN  /\ raiz' = r.nodo
             /\ disco' = g.disco
             /\ ult' = [op |-> "insertar", error |-> FALSE,
                        rot |-> r.rot, eventos |-> Entregados(r.rot),
                        escrituras |-> g.escrituras]
             /\ UNCHANGED <<rotation_callback, json_file, rotations_performed>>

\* Variant: rotations_performed is not cleared at the start of the call.
Eliminar_sin_limpiar(clave) ==
    LET r == _eliminar(raiz, clave)
        g == _actualizar_json(json_file, disco, r.nodo)
    IN  /\ rotations_performed' = rotations_performed \o r.perf
        /\ raiz' = r.nodo
        /\ disco' = g.disco
        /\ ult' = [op |-> "eliminar", hijos |-> Hijos(raiz, clave),
                   ret |-> rotations_performed \o r.perf,
                   rot |-> r.rot, eventos |-> Entregados(r.rot),
                   escrituras |-> g.escrituras]
        /\ UNCHANGED <<rotation_callback, json_file>>

Eliminar(clave) ==
    LET limpia == <<>>
        r == _eliminar(raiz, clave)
        g == _actualizar_json(json_file, disco, r.nodo)
    IN  /\ rotations_performed' = limpia \o r.perf
        /\ raiz' = r.nodo
        /\ disco' = g.disco
        /\ ult' = [op |-> "eliminar", hijos |-> Hijos(raiz, clave),
                   ret |-> limpia \o r.perf,
                   rot |-> r.rot, eventos |-> Entregados(r.rot),
                   escrituras |-> g.escrituras]
        /\ UNCHANGED <<rotation_callback, json_file>>

\* Variant: a new value of 0 counts as not supplied.
RECURSIVE _actualizar_recursivo_cero(_, _, _, _)
_actualizar_recursivo_cero(nodo, clave, nueva_cantidad, nuevo_precio) ==
    IF nodo = Nil THEN [nodo |-> nodo, resultado |-> FALSE]
    ELSE IF clave = nodo.clave
    THEN LET n1 == IF nueva_cantidad # None /\ nueva_cantidad # Some(0)
                   THEN [nodo EXCEPT !.cantidad = nueva_cantidad[1]] ELSE nodo
             n2 == IF nuevo_precio # None /\ nuevo_precio # Some(0)
                   THEN [n1 EXCEPT !.precio = nuevo_precio[1]] ELSE n1
         IN  [nodo |-> n2, resultado |-> TRUE]
    ELSE IF clave < nodo.clave
    THEN LET r == _actualizar_recursivo_cero(nodo.izquierda, clave, nueva_cantidad, nuevo_precio)
         IN  [nodo |-> [nodo EXCEPT !.izquierda = r.nodo], resultado |-> r.resultado]
    ELSE LET r == _actualizar_recursivo_cero(nodo.derecha, clave, nueva_cantidad, nuevo_precio)
         IN  [nodo |-> [nodo EXCEPT !.derecha = r.nodo], resultado |-> r.resultado]

\* _actualizar_recursivo: the subtree after the update and what it returns
\* (TRUE for True, FALSE for None).
RECURSIVE _actualizar_recursivo(_, _, _, _)
_actualizar_recursivo(nodo, clave, nueva_cantidad, nuevo_precio) ==
    IF nodo = Nil THEN [nodo |-> nodo, resultado |-> FALSE]
    ELSE IF clave = nodo.clave
    THEN LET n1 == IF nueva_cantidad # None
                   THEN [nodo EXCEPT !.cantidad = nueva_cantidad[1]] ELSE nodo
             n2 == IF nuevo_precio # None
                   THEN [n1 EXCEPT !.precio = nuevo_precio[1]] ELSE n1
         IN  [nodo |-> n2, resultado |-> TRUE]
    ELSE IF clave < nodo.clave
    THEN LET r == _actualizar_recursivo(nodo.izquierda, clave, nueva_cantidad, nuevo_precio)
         IN  [nodo |-> [nodo EXCEPT !.izquierda = r.nodo], resultado |-> r.resultado]
    ELSE LET r == _actualizar_recursivo(nodo.derecha, clave, nueva_cantidad, nuevo_precio)
         IN  [nodo |-> [nodo EXCEPT !.derecha = r.nodo], resultado |-> r.resultado]

\* actualizar_producto on an engine with this tree, snapshot target and disk:
\* the tree and the disk it leaves, what it returns (TRUE for True, FALSE for
\* None) and how many snapshots it wrote.
actualizar_producto(arbol, jf, d, clave, nueva_cantidad, nuevo_precio) ==
    LET r == _actualizar_recursivo(arbol, clave, nueva_cantidad, nuevo_precio)
        g == IF r.resultado THEN _actualizar_json(jf, d, r.nodo)
             ELSE [json_file |-> jf, disco |-> d, error |-> FALSE,
                   escrituras |-> 0]
    IN  [raiz |-> r.nodo, disco |-> g.disco, ret |-> r.resultado,
         escrituras |-> g.escrituras]

ActualizarProducto(clave, nueva_cantidad, nuevo_precio) ==
    LET a == actualizar_producto(raiz, json_file, disco, clave, nueva_cantidad, nuevo_precio)
    IN  /\ raiz' = a.raiz
        /\ disco' = a.disco
        /\ ult' = [op |-> "actualizar_producto",
                   ret |-> a.ret, escrituras |-> a.escrituras]
        /\ UNCHANGED <<rotation_callback, json_file, rotations_performed>>

GuardarEnJson(archivo_json) ==
    LET g == guardar_en_json(json_file, disco, raiz, archivo_json)
    IN  /\ json_file' = g.json_file
        /\ disco' = g.disco
        /\ ult' = [op |-> "guardar_en_json", error |-> g.error,
                   escrituras |-> g.escrituras]
        /\ UNCHANGED <<raiz, rotation_callback, rotations_performed>>

\* Variant: the loop leaves out the last record of the source.
RECURSIVE cargar_bucle_sin_ultimo(_, _, _, _, _, _, _)
cargar_bucle_sin_ultimo(arbol, jf, d, datos, i, rot, escrituras) ==
    IF i >= Len(datos)
    THEN [raiz |-> arbol, disco |-> d, error |-> FALSE, rot |-> rot,
          escrituras |-> escrituras, insertados |-> i - 1]
    ELSE LET producto == datos[i]
             r == _insertar(arbol, producto.clave, producto.nombre,
                            producto.cantidad, producto.precio, producto.categoria)
         IN  cargar_bucle_sin_ultimo(r.nodo, jf, d, datos, i + 1, rot \o r.rot,
                                     escrituras)

\* The loop of cargar_desde_json over datos[i..]: insertar for each record,
\* stopping at the first one that raises.
RECURSIVE cargar_bucle(_, _, _, _, _, _, _)
cargar_bucle(arbol, jf, d, datos, i, rot, escrituras) ==
    IF i > Len(datos)
    THEN [raiz |-> arbol, disco |-> d, error |-> FALSE, rot |-> rot,
          escrituras |-> escrituras, insertados |-> i - 1]
    ELSE LET producto == datos[i]
         IN  IF buscar(arbol, producto.clave).resultado # Nil
             THEN [raiz |-> arbol, disco |-> d, error |-> TRUE, rot |-> rot,
                   escrituras |-> escrituras, insertados |-> i - 1]
             ELSE LET r == _insertar(arbol, producto.clave, producto.nombre,
                                     producto.cantidad, producto.precio,
                                     producto.categoria)
                      g == _actualizar_json(jf, d, r.nodo)
                  IN  cargar_bucle(r.nodo, jf, g.disco, datos, i + 1, rot \o r.rot,
                                   escrituras + g.escrituras)

\* cargar_desde_json on a file whose content parses to the list datos.
CargarDesdeJson(datos) ==
    LET c == cargar_bucle(raiz, json_file, disco, datos, 1, <<>>, 0)
    IN  /\ raiz' = c.raiz
        /\ disco' = c.disco
        /\ ult' = [op |-> "cargar_desde_json", error |-> c.error,
                   insertados |-> c.insertados, escrituras |-> c.escrituras]
        /\ UNCHANGED <<rotation_callback, json_file, rotations_performed>>

\* cargar_desde_json on a file that is missing or does not parse: open or
\* json.load raises before the loop.
CargarDesdeJsonIlegible ==
    /\ ult' = [op |-> "cargar_desde_json", error |-> TRUE,
               insertados |-> 0, escrituras |-> 0]
    /\ UNCHANGED <<raiz, rotation_callback, json_file, rotations_performed, disco>>

Buscar(clave) ==
    /\ ult' = [op |-> "buscar", clave |-> clave, ret |-> buscar(raiz, clave)]
    /\ UNCHANGED <<raiz, rotation_callback, json_file, rotations_performed, disco>>

BuscarPorRangoPrecios(precio_min, precio_max) ==
    /\ ult' = [op |-> "buscar_por_rango_precios", precio_min |-> precio_min,
               precio_max |-> precio_max,
               ret |-> buscar_por_rango_precios(raiz, precio_min, precio_max)]
    /\ UNCHANGED <<raiz, rotation_callback, json_file, rotations_performed, disco>>

BusquedaCombinada(precio_min, precio_max, categoria) ==
    /\ ult' = [op |-> "busqueda_combinada", precio_min |-> precio_min,
               precio_max |-> precio_max, categoria |-> categoria,
               ret |-> busqueda_combinada(raiz, precio_min, precio_max, categoria)]
    /\ UNCHANGED <<raiz, rotation_callback, json_file, rotations_performed, disco>>

BuscarPorCategoria(categoria) ==
    /\ ult' = [op |-> "buscar_por_categoria", categoria |-> categoria,
               ret |-> buscar_por_categoria(raiz, categoria)]
    /\ UNCHANGED <<raiz, rotation_callback, json_file, rotations_performed, disco>>

InOrderTraversal ==
    /\ ult' = [op |-> "in_order_traversal", ret |-> in_order_traversal(raiz)]
    /\ UNCHANGED <<raiz, rotation_callback, json_file, rotations_performed, disco>>

\* A rotation call taken statement by statement. While it runs, ult is its
\* frame: pc is the statement it stands before, sub the subtree as it hangs
\* from the node that is its root at that moment, eventos what the callback
\* has received from this call.
RotacionEnCurso ==
    ult.op \in {"rotacion_derecha", "rotacion_izquierda"} /\ ult.pc # "fin"

\* rotacion_derecha(y): x and T2 are read, nothing is changed yet.
RotacionDerechaInicio(y) ==
    /\ y # Nil /\ y.izquierda # Nil
    /\ ult' = [op |-> "rotacion_derecha", pc |-> "notificar", sub |-> y,
               eventos |-> <<>>]
    /\ UNCHANGED <<raiz, rotation_callback, json_file, rotations_performed, disco>>

\* if self.rotation_callback: self.rotation_callback(...)
RotacionDerechaNotificar ==
    /\ ult.op = "rotacion_derecha" /\ ult.pc = "notificar"
    /\ ult' = [ult EXCEPT !.pc = "rotar",
                          !.eventos = Entregados(<<rotacion_derecha_evento(ult.sub)>>)]
    /\ UNCHANGED <<raiz, rotation_callback, json_file, rotations_performed, disco>>

\* The pointer changes, the two heights, and return x.
RotacionDerechaRotar ==
    /\ ult.op = "rotacion_derecha" /\ ult.pc = "rotar"
    /\ ult' = [ult EXCEPT !.pc = "fin", !.sub = rotacion_derecha(ult.sub)]
    /\ UNCHANGED <<raiz, rotation_callback, json_file, rotations_performed, disco>>

RotacionIzquierdaInicio(x) ==
    /\ x # Nil /\ x.derecha # Nil
    /\ ult' = [op |-> "rotacion_izquierda", pc |-> "notificar", sub |-> x,
               eventos |-> <<>>]
    /\ UNCHANGED <<raiz, rotation_callback, json_file, rotations_performed, disco>>

RotacionIzquierdaNotificar ==
    /\ ult.op = "rotacion_izquierda" /\ ult.pc = "notificar"
    /\ ult' = [ult EXCEPT !.pc = "rotar",
                          !.eventos = Entregados(<<rotacion_izquierda_evento(ult.sub)>>)]
    /\ UNCHANGED <<raiz, rotation_callback, json_file, rotations_performed, disco>>

RotacionIzquierdaRotar ==
    /\ ult.op = "rotacion_izquierda" /\ ult.pc = "rotar"
    /\ ult' = [ult EXCEPT !.pc = "fin", !.sub = rotacion_izquierda(ult.sub)]
    /\ UNCHANGED <<raiz, rotation_callback, json_file, rotations_performed, disco>>

(* ----------------------------- inputs ---------------------------------- *)
\* The products the callers insert: name, quantity, price, category.
Producto(nombre, cantidad, precio, categoria) ==
    [nombre |-> nombre, cantidad |-> cantidad, precio |-> precio,
     categoria |-> categoria]

Productos == {Producto("a", 0, 1, "Hogar"), Producto("b", 1, 2, "Juguetes")}

RegistroDe(k, prod) ==
    [clave |-> k, nombre |-> prod.nombre, cantidad |-> prod.cantidad,
     precio |-> prod.precio, categoria |-> prod.categoria]

\* JSON sources: lists of at most two records, of keys 1 and 2, possibly
\* the same key twice.
RegistrosFuente == {RegistroDe(k, Producto("a", 0, 1, "Hogar")) : k \in {1, 2}}

Fuentes ==
    {<<>>} \cup {<<r>> : r \in RegistrosFuente}
           \cup {<<r, s>> : r \in RegistrosFuente, s \in RegistrosFuente}

\* JSON sources whose records differ in their fields as well: a key may come
\* twice with the same or with different fields.
RegistrosCarga == {RegistroDe(k, prod) : k \in {1, 2}, prod \in Productos}

FuentesCarga ==
    {<<>>} \cup {<<r>> : r \in RegistrosCarga}
           \cup {<<r, s>> : r \in RegistrosCarga, s \in RegistrosCarga}

\* The (nueva_cantidad, nuevo_precio) pairs of an update of the quantity.
Actualizaciones == {<<None, None>>, <<Some(1), None>>}

\* The bounds of a price query: the prices in use.
PreciosConsulta == 1..2

\* The optional price bounds and the optional category of a combined query.
PreciosOpcionales == {None, Some(2)}
CategoriasOpcionales == {None, Some("Hogar"), Some("Juguetes")}

\* The product stored under a key in the runs that write snapshots.
ProductoDe(k) ==
    IF k % 2 = 1 THEN Producto("a", 0, 1, "Hogar") ELSE Producto("b", 1, 2, "Juguetes")

\* A newly constructed engine: what AVLTree() holds.
MotorNuevo == [raiz |-> Nil, json_file |-> None]

\* The categories asked for: one in use, one valid but unused, one in use
\* but outside the accepted list.
CategoriasConsulta == {"Hogar", "Cocina", "Juguetes"}

\* The nodes of a tree, each with the subtree below it.
RECURSIVE Subarboles(_)
Subarboles(nodo) ==
    IF nodo = Nil THEN {}
    ELSE {nodo} \cup Subarboles(nodo.izquierda) \cup Subarboles(nodo.derecha)

\* The keys of the two insertion scenarios.
ClavesEscenario == {10, 20, 30}

\* The prices of the records of the price-range scenario, and its query.
PreciosEscenario == {5, 12, 18, 25}
RangoEscenario == [precio_min |-> 10, precio_max |-> 20]

\* JSON sources with distinct keys: the records of any keys, in any order.
FuentesPermutadas ==
    {[i \in 1..Len(ks) |-> RegistroDe(ks[i], ProductoDe(ks[i]))] :
        ks \in {q \in UNION {[1..n -> Keys] : n \in 0..MaxKey} :
                   \A i, j \in 1..Len(q) : i # j => q[i] # q[j]}}

(* ----------------------------- specifications -------------------------- *)
\* The mutations of an engine with no snapshot target and no observer.
Next ==
    \/ \E k \in Keys, prod \in Productos :
           Insertar(k, prod.nombre, prod.cantidad, prod.precio, prod.categoria)
    \/ \E k \in Keys : Eliminar(k)
    \/ \E k \in Keys, a \in Actualizaciones : ActualizarProducto(k, a[1], a[2])
    \/ \E datos \in Fuentes : CargarDesdeJson(datos)

Spec == Init /\ [][Next]_vars

\* Mutations interleaved with the queries.
NextConsultas ==
    \/ \E k \in Keys, prod \in Productos :
           Insertar(k, prod.nombre, prod.cantidad, prod.precio, prod.categoria)
    \/ \E k \in Keys : Eliminar(k)
    \/ \E k \in Keys, a \in Actualizaciones : ActualizarProducto(k, a[1], a[2])
    \/ \E k \in Keys : Buscar(k)
    \/ \E lo \in PreciosConsulta, hi \in PreciosConsulta :
           lo <= hi /\ BuscarPorRangoPrecios(lo, hi)

SpecConsultas == Init /\ [][NextConsultas]_vars

\* Inserts and deletes with an observer and a snapshot target being configured.
NextEntorno ==
    \/ SetRotationCallback
    \/ \E f \in Rutas : SetJsonFile(f)
    \/ \E a \in {None} \cup {Some(f) : f \in Rutas} : GuardarEnJson(a)
    \/ \E k \in Keys, prod \in Productos :
           Insertar(k, prod.nombre, prod.cantidad, prod.precio, prod.categoria)
    \/ \E k \in Keys : Eliminar(k)

SpecEntorno == Init /\ [][NextEntorno]_vars

\* Inserts and deletes interleaved with the filtered queries.
NextBusquedas ==
    \/ \E k \in Keys, prod \in Productos :
           Insertar(k, prod.nombre, prod.cantidad, prod.precio, prod.categoria)
    \/ \E k \in Keys : Eliminar(k)
    \/ \E lo \in PreciosOpcionales, hi \in PreciosOpcionales,
          c \in CategoriasOpcionales : BusquedaCombinada(lo, hi, c)
    \/ \E c \in CategoriasConsulta : BuscarPorCategoria(c)

SpecBusquedas == Init /\ [][NextBusquedas]_vars

\* Loads of JSON sources into an engine that has or has not a snapshot target.
NextCarga ==
    \/ \E f \in Rutas : SetJsonFile(f)
    \/ \E k \in Keys, prod \in Productos :
           Insertar(k, prod.nombre, prod.cantidad, prod.precio, prod.categoria)
    \/ \E k \in Keys : Eliminar(k)
    \/ \E datos \in FuentesCarga : CargarDesdeJson(datos)
    \/ CargarDesdeJsonIlegible

SpecCarga == Init /\ [][NextCarga]_vars

\* Trees of up to MaxClaveSnapshot records being built, trimmed at their
\* smallest and largest key, saved to a file, and the file being loaded.
NextIdaYVuelta ==
    \/ \E k \in ClavesSnapshot :
           Insertar(k, ProductoDe(k).nombre, ProductoDe(k).cantidad,
                    ProductoDe(k).precio, ProductoDe(k).categoria)
    \/ \E k \in {1, MaxClaveSnapshot} : Eliminar(k)
    \/ \E f \in Rutas : GuardarEnJson(Some(f))
    \/ \E f \in Rutas : disco[f].existe /\ CargarDesdeJson(disco[f].datos)
    \/ \E f \in Rutas : ~disco[f].existe /\ CargarDesdeJsonIlegible

SpecIdaYVuelta == Init /\ [][NextIdaYVuelta]_vars

\* Mutations of an engine whose snapshot target is being configured, by
\* set_json_file or by a save to an explicit destination.
NextInstantanea ==
    \/ \E f \in Rutas : SetJsonFile(f)
    \/ \E a \in {None} \cup {Some(f) : f \in Rutas} : GuardarEnJson(a)
    \/ \E k \in Keys :
           Insertar(k, ProductoDe(k).nombre, ProductoDe(k).cantidad,
                    ProductoDe(k).precio, ProductoDe(k).categoria)
    \/ \E k \in Keys : Eliminar(k)
    \/ \E k \in Keys, a \in Actualizaciones : ActualizarProducto(k, a[1], a[2])
    \/ InOrderTraversal

SpecInstantanea == Init /\ [][NextInstantanea]_vars

\* Rotations called on the nodes of the trees that inserts and deletes build,
\* with or without an observer; a rotation call runs to its end before the
\* next call starts.
NextRotaciones ==
    \/ ~RotacionEnCurso /\ SetRotationCallback
    \/ /\ ~RotacionEnCurso
       /\ \E k \in Keys :
              Insertar(k, ProductoDe(k).nombre, ProductoDe(k).cantidad,
                       ProductoDe(k).precio, ProductoDe(k).categoria)
    \/ ~RotacionEnCurso /\ \E k \in Keys : Eliminar(k)
    \/ ~RotacionEnCurso /\ \E y \in Subarboles(raiz) : RotacionDerechaInicio(y)
    \/ RotacionDerechaNotificar
    \/ RotacionDerechaRotar
    \/ ~RotacionEnCurso /\ \E x \in Subarboles(raiz) : RotacionIzquierdaInicio(x)
    \/ RotacionIzquierdaNotificar
    \/ RotacionIzquierdaRotar

SpecRotaciones == Init /\ [][NextRotaciones]_vars

\* Inserts and deletes of the scenario keys, with or without an observer.
NextEscenarios ==
    \/ SetRotationCallback
    \/ \E k \in ClavesEscenario, prod \in Productos :
           Insertar(k, prod.nombre, prod.cantidad, prod.precio, prod.categoria)
    \/ \E k \in ClavesEscenario : Eliminar(k)

SpecEscenarios == Init /\ [][NextEscenarios]_vars

\* Records with the scenario prices inserted under any keys in any order,
\* and the scenario's range query.
NextPrecios ==
    \/ \E k \in Keys, precio \in PreciosEscenario :
           Insertar(k, "a", 0, precio, "Hogar")
    \/ BuscarPorRangoPrecios(RangoEscenario.precio_min, RangoEscenario.precio_max)

SpecPrecios == Init /\ [][NextPrecios]_vars

\* Loads of sources with distinct keys in any order, and deletes.
NextPermutaciones ==
    \/ \E datos \in FuentesPermutadas : CargarDesdeJson(datos)
    \/ \E k \in Keys : Eliminar(k)

SpecPermutaciones == Init /\ [][NextPermutaciones]_vars

\* Inserts, deletes and lookups on trees deep enough to rebalance below the
\* root.
NextEstructura ==
    \/ \E k \in ClavesEstructura :
           Insertar(k, ProductoDe(k).nombre, ProductoDe(k).cantidad,
                    ProductoDe(k).precio, ProductoDe(k).categoria)
    \/ \E k \in ClavesEstructura : Eliminar(k)
    \/ \E k \in ClavesEstructura : Buscar(k)

SpecEstructura == Init /\ [][NextEstructura]_vars

\* What the delete field of the window holds: nothing, text that int() rejects,
\* or the digits of a key.
TextoVacio == [tipo |-> "vacio", entero |-> None]

TextoNoEntero == [tipo |-> "no_entero", entero |-> None]

TextoDeClave(k) == [tipo |-> "entero", entero |-> Some(k)]

TextosEliminar == {TextoVacio, TextoNoEntero} \cup {TextoDeClave(k) : k \in Keys}

\* The Python value buscar returns: always the pair (resultado, camino).
ValorDeBuscar(arbol, clave) ==
    [tipo |-> "tuple", resultado |-> buscar(arbol, clave).resultado,
     camino |-> buscar(arbol, clave).camino]

\* valor is None
EsNone(valor) == valor.tipo = "NoneType"

\* MainWindow.delete_node on the text of the delete field.  mensaje is the box
\* it shows, llamo_eliminar whether AVLTree.eliminar was called.
DeleteNode(key_text) ==
    LET sin_cambio(mensaje) ==
            /\ ult' = [op |-> "delete_node", clave |-> key_text.entero,
                       mensaje |-> mensaje, llamo_eliminar |-> FALSE,
                       escrituras |-> 0]
            /\ UNCHANGED <<raiz, rotation_callback, json_file,
                           rotations_performed, disco>>
    IN  IF key_text.tipo = "vacio" THEN sin_cambio("clave_vacia")
        ELSE IF key_text.tipo = "no_entero" THEN sin_cambio("clave_no_entera")
        ELSE LET key == key_text.entero[1]
             IN  IF EsNone(ValorDeBuscar(raiz, key)) THEN sin_cambio("no_existe")
                 ELSE LET r == _eliminar(raiz, key)
                          g == _actualizar_json(json_file, disco, r.nodo)
                      IN  /\ rotations_performed' = r.perf
                          /\ raiz' = r.nodo
                          /\ disco' = g.disco
                          /\ ult' = [op |-> "delete_node", clave |-> Some(key),
                                     mensaje |-> "exito", llamo_eliminar |-> TRUE,
                                     escrituras |-> g.escrituras]
                          /\ UNCHANGED <<rotation_callback, json_file>>

\* The window: its engine with a callback, a snapshot target set or not,
\* inserts, and the delete action.
NextGui ==
    \/ SetRotationCallback
    \/ \E f \in Rutas : SetJsonFile(f)
    \/ \E k \in Keys :
           Insertar(k, ProductoDe(k).nombre, ProductoDe(k).cantidad,
                    ProductoDe(k).precio, ProductoDe(k).categoria)
    \/ \E t \in TextosEliminar : DeleteNode(t)

SpecGui == Init /\ [][NextGui]_vars

\* The values actualizar_producto is called with: none, or zero.
CantidadesNuevas == {None, Some(0)}

PreciosNuevos == {None, Some(0)}

\* Updates of present and absent keys, with and without a snapshot target.
NextActualizar ==
    \/ \E f \in Rutas : SetJsonFile(f)
    \/ \E k \in Keys :
           Insertar(k, ProductoDe(k).nombre, ProductoDe(k).cantidad,
                    ProductoDe(k).precio, ProductoDe(k).categoria)
    \/ \E k \in Keys, c \in CantidadesNuevas, p \in PreciosNuevos :
           ActualizarProducto(k, c, p)

SpecActualizar == Init /\ [][NextActualizar]_vars

(* ----------------------------- tree predicates ------------------------ *)
RECURSIVE Claves(_)
Claves(nodo) ==
    IF nodo = Nil THEN {}
    ELSE Claves(nodo.izquierda) \cup {nodo.clave} \cup Claves(nodo.derecha)

RECURSIVE Tamano(_)
Tamano(nodo) ==
    IF nodo = Nil THEN 0 ELSE Tamano(nodo.izquierda) + 1 + Tamano(nodo.derecha)

\* The true height of a subtree, recomputed from its shape.
RECURSIVE AlturaReal(_)
AlturaReal(nodo) ==
    IF nodo = Nil THEN 0
    ELSE 1 + Max(AlturaReal(nodo.izquierda), AlturaReal(nodo.derecha))

\* I1 at every node of the subtree.
RECURSIVE OrdenABB(_)
OrdenABB(nodo) ==
    \/ nodo = Nil
    \/ /\ \A k \in Claves(nodo.izquierda) : k < nodo.clave
       /\ \A k \in Claves(nodo.derecha) : k > nodo.clave
       /\ OrdenABB(nodo.izquierda)
       /\ OrdenABB(nodo.derecha)

\* I2 at every node of the subtree, on true heights.
RECURSIVE BalanceAVL(_)
BalanceAVL(nodo) ==
    \/ nodo = Nil
    \/ /\ AlturaReal(nodo.izquierda) - AlturaReal(nodo.derecha) \in {-1, 0, 1}
       /\ BalanceAVL(nodo.izquierda)
       /\ BalanceAVL(nodo.derecha)

\* I3 at every node of the subtree, on stored heights.
RECURSIVE AlturasI3(_)
AlturasI3(nodo) ==
    \/ nodo = Nil
    \/ /\ nodo.altura = 1 + Max(obtener_altura(nodo.izquierda),
                                obtener_altura(nodo.derecha))
       /\ nodo.altura = AlturaReal(nodo)
       /\ AlturasI3(nodo.izquierda)
       /\ AlturasI3(nodo.derecha)

\* The records of all the nodes of a subtree.
RECURSIVE RegistrosDe(_)
RegistrosDe(nodo) ==
    IF nodo = Nil THEN {}
    ELSE RegistrosDe(nodo.izquierda) \cup {Registro(nodo)} \cup RegistrosDe(nodo.derecha)

\* seq with the record r put between the keys below and the keys above its own.
EsInsercionOrdenada(despues, antes, r) ==
    \E i \in 0..Len(antes) :
        /\ despues = SubSeq(antes, 1, i) \o <<r>> \o SubSeq(antes, i + 1, Len(antes))
        /\ i > 0 => antes[i].clave < r.clave
        /\ i < Len(antes) => r.clave < antes[i + 1].clave

\* seq with its one record of key k taken out.
EsSupresion(despues, antes, k) ==
    \E i \in 1..Len(antes) :
        /\ antes[i].clave = k
        /\ despues = SubSeq(antes, 1, i - 1) \o SubSeq(antes, i + 1, Len(antes))

\* The event kind a rotation description names.
TipoDe(texto) ==
    IF texto = "Rotacion Derecha" THEN "rotacion_derecha" ELSE "rotacion_izquierda"

(* ----------------------------- claims ---------------------------------- *)
\* C1: after every public mutation (insertar, eliminar, actualizar_producto,
\* cargar_desde_json) returns, every node has all keys of its left subtree
\* strictly below its key and all keys of its right subtree strictly above.
C1_OrdenABB == OrdenABB(raiz)

\* A deletion of a node with two children has just returned.
C1_Witness == ult.op = "eliminar" /\ ult.hijos = 2 /\ Tamano(raiz) >= 3

\* C2: after every insertar or eliminar returns, every node's subtrees differ
\* in true height by at most one.
C2_BalanceAVL == BalanceAVL(raiz)

\* A deletion that rebalanced with a double rotation has just returned.
C2_Witness == ult.op = "eliminar" /\ Len(ult.rot) = 2

\* C3: after every insertar or eliminar returns, every node's stored altura
\* is 1 + max of the stored heights of its children (absent child: 0), and so
\* equals the true height of its subtree.
C3_AlturasI3 == AlturasI3(raiz)

\* An insertion that rebalanced with a double rotation has just returned.
C3_Witness == ult.op = "insertar" /\ Len(ult.rot) = 2 /\ Tamano(raiz) = 3

\* C4: insertar with a key already present fails with the duplicate-key error
\* and leaves the tree unchanged (shape, heights, every field of every
\* record), emits no rotation event and writes no snapshot.
C4_InsertarDuplicado ==
    [][\A k \in Keys, prod \in Productos :
          (/\ ult'.op = "insertar" /\ k \in Claves(raiz)
           /\ Insertar(k, prod.nombre, prod.cantidad, prod.precio, prod.categoria))
          => /\ ult'.error
             /\ raiz' = raiz
             /\ ult'.rot = <<>> /\ ult'.eventos = <<>>
             /\ ult'.escrituras = 0 /\ disco' = disco
             /\ json_file' = json_file
             /\ rotations_performed' = rotations_performed]_vars

\* A duplicate insert was refused while an observer and a snapshot target
\* were configured.
C4_Witness ==
    /\ ult.op = "insertar" /\ ult.error
    /\ rotation_callback /\ json_file # None
    /\ Tamano(raiz) >= 2

\* C5: for every key present buscar returns exactly the record stored for it
\* (all five fields); for every key absent it returns None, with a non-empty
\* path whenever the tree is non-empty.
C5_Buscar ==
    ult.op = "buscar" =>
        LET k == ult.clave
            b == ult.ret
        IN  /\ k \in Claves(raiz) =>
                /\ b.resultado \in RegistrosDe(raiz)
                /\ b.resultado.clave = k
                /\ Cardinality({r \in RegistrosDe(raiz) : r.clave = k}) = 1
            /\ k \notin Claves(raiz) =>
                /\ b.resultado = Nil
                /\ raiz # Nil => b.camino # <<>>

\* buscar found, two levels below the root, a record whose quantity was updated.
C5_Witness ==
    /\ ult.op = "buscar" /\ ult.ret.resultado # Nil
    /\ Len(ult.ret.camino) = 3
    /\ ult.ret.resultado = [clave |-> ult.clave, nombre |-> "a", cantidad |-> 1,
                            precio |-> 1, categoria |-> "Hogar"]

\* C6: insertar of an absent key adds exactly one record: the in-order
\* traversal afterwards is the previous one with the new record (the given
\* name, quantity, price, category) at its sorted position, every other
\* record unchanged.
C6_InsertarAusente ==
    [][\A k \in Keys, prod \in Productos :
          (/\ ult'.op = "insertar" /\ k \notin Claves(raiz)
           /\ Insertar(k, prod.nombre, prod.cantidad, prod.precio, prod.categoria))
          => /\ ~ult'.error
             /\ EsInsercionOrdenada(in_order_traversal(raiz'),
                                    in_order_traversal(raiz), RegistroDe(k, prod))]_vars

\* An insert of a new key that rebalanced with a single rotation has returned.
C6_Witness ==
    /\ ult.op = "insertar" /\ ~ult.error
    /\ Len(ult.rot) = 1 /\ Tamano(raiz) = 3

\* C7: eliminar of a present key removes exactly that record and every other
\* record keeps all its fields, also when the node has two children and the
\* in-order successor's record is copied onto it.
C7_EliminarPresente ==
    [][\A k \in Keys :
          (ult'.op = "eliminar" /\ k \in Claves(raiz) /\ Eliminar(k))
          => EsSupresion(in_order_traversal(raiz'), in_order_traversal(raiz), k)]_vars

\* A node with two children was deleted and three records remain.
C7_Witness == ult.op = "eliminar" /\ ult.hijos = 2 /\ Tamano(raiz) = 3

\* C8: eliminar of an absent key returns an empty list and leaves the tree
\* shape, every stored height and every record unchanged, with no rotation.
C8_EliminarAusente ==
    [][\A k \in Keys :
          (ult'.op = "eliminar" /\ k \notin Claves(raiz) /\ Eliminar(k))
          => /\ raiz' = raiz
             /\ ult'.ret = <<>> /\ ult'.rot = <<>>]_vars

\* A delete of an absent key from a tree of at least three nodes has returned.
C8_Witness == ult.op = "eliminar" /\ ult.hijos = -1 /\ Tamano(raiz) >= 3

\* C9: the list eliminar returns has one entry per rotation the call
\* executed, in execution order, each naming the kind and the outer key of
\* the event the observer got; nothing of an earlier call is in it.
C9_ListaRotaciones ==
    ult.op = "eliminar" =>
        /\ Len(ult.ret) = Len(ult.rot)
        /\ \A i \in 1..Len(ult.ret) :
              /\ TipoDe(ult.ret[i].texto) = ult.rot[i].tipo
              /\ ult.ret[i].clave = ult.rot[i].outer
        /\ rotation_callback => ult.eventos = ult.rot
        /\ rotations_performed = ult.ret

\* An observed delete that rebalanced with two rotations has returned.
C9_Witness ==
    /\ ult.op = "eliminar" /\ rotation_callback
    /\ Len(ult.ret) = 2 /\ Len(ult.eventos) = 2

\* C10: buscar_por_rango_precios(min, max), min <= max, returns all the
\* records with min <= price <= max and only those.
C10_RangoPrecios ==
    ult.op = "buscar_por_rango_precios" =>
        {ult.ret.resultados[i] : i \in 1..Len(ult.ret.resultados)}
            = {r \in RegistrosDe(raiz) :
                   ult.precio_min <= r.precio /\ r.precio <= ult.precio_max}

\* Whether a record satisfies every predicate a combined query supplies.
Satisface(r, precio_min, precio_max, categoria) ==
    /\ precio_min # None => r.precio >= precio_min[1]
    /\ precio_max # None => r.precio <= precio_max[1]
    /\ categoria # None => r.categoria = categoria[1]

\* A list of records in strictly ascending key order.
EstrictamenteAscendente(lista) ==
    \A i \in 1..Len(lista) - 1 : lista[i].clave < lista[i + 1].clave

\* C11: busqueda_combinada returns exactly the records that satisfy every
\* supplied predicate (price >= precio_min, price <= precio_max, category
\* equal), sorted by key ascending; with no predicate, all the records.
C11_BusquedaCombinada ==
    ult.op = "busqueda_combinada" =>
        /\ {ult.ret.resultados[i] : i \in 1..Len(ult.ret.resultados)}
               = {r \in RegistrosDe(raiz) :
                      Satisface(r, ult.precio_min, ult.precio_max, ult.categoria)}
        /\ EstrictamenteAscendente(ult.ret.resultados)

\* The positions of a source whose key comes again later in the source.
Repetidos(datos) ==
    {i \in 1..Len(datos) : \E j \in (i + 1)..Len(datos) : datos[j].clave = datos[i].clave}

\* C12: cargar_desde_json on a source that holds a key more than once
\* completes, and the record stored for each key is the last one of the source.
C12_CargaDuplicados ==
    [][\A datos \in FuentesCarga :
          (/\ ult'.op = "cargar_desde_json" /\ Repetidos(datos) # {}
           /\ CargarDesdeJson(datos))
          => /\ ~ult'.error
             /\ \A i \in (1..Len(datos)) \ Repetidos(datos) :
                   datos[i] \in RegistrosDe(raiz')]_vars

\* C13: a cargar_desde_json call that raises leaves the tree and the files
\* exactly as they were: no record of the source has been inserted.
C13_CargaSinEstadoParcial ==
    [][\A datos \in FuentesCarga :
          (/\ ult'.op = "cargar_desde_json" /\ ult'.error
           /\ CargarDesdeJson(datos))
          => /\ raiz' = raiz
             /\ disco' = disco]_vars

\* C14: a tree saved with guardar_en_json and loaded with cargar_desde_json
\* into a newly constructed, empty engine gives an engine whose in-order
\* traversal is that of the saved tree: same records, same fields, same order.
C14_IdaYVuelta ==
    (ult.op = "guardar_en_json" /\ ~ult.error) =>
        LET datos == disco[json_file[1]].datos
            c == cargar_bucle(MotorNuevo.raiz, MotorNuevo.json_file, disco,
                              datos, 1, <<>>, 0)
        IN  /\ ~c.error
            /\ c.insertados = Tamano(raiz)
            /\ in_order_traversal(c.raiz) = in_order_traversal(raiz)

\* A tree of seven records, with records that differ in every field but the
\* key's own, has just been saved.
C14_Witness ==
    /\ ult.op = "guardar_en_json" /\ ~ult.error
    /\ Tamano(raiz) = 7
    /\ raiz.izquierda.derecha # Nil /\ raiz.derecha.izquierda # Nil
    /\ Cardinality({r.nombre : r \in RegistrosDe(raiz)}) = 2

\* The last call was a mutation that returned: an insertar that did not
\* raise, an eliminar, or an actualizar_producto that found its key.
MutacionDevuelta ==
    \/ ult.op = "insertar" /\ ~ult.error
    \/ ult.op = "eliminar"
    \/ ult.op = "actualizar_producto" /\ ult.ret

\* C15: with a snapshot target configured (by set_json_file or by an earlier
\* guardar_en_json with an explicit destination), after every insertar,
\* eliminar or successful actualizar_producto the file at the target holds
\* the tree's in-order traversal, in ascending key order; with no target
\* configured the mutations write nothing.
C15_Instantanea ==
    /\ (json_file # None /\ MutacionDevuelta) =>
           /\ disco[json_file[1]] = Archivo(in_order_traversal(raiz))
           /\ EstrictamenteAscendente(disco[json_file[1]].datos)
           /\ ult.escrituras = 1
    /\ json_file = None =>
           /\ \A f \in Rutas : disco[f] = NoFile
           /\ ult.op \in {"insertar", "eliminar", "actualizar_producto"}
                  => ult.escrituras = 0

\* An update has just been persisted to a target that a save to an explicit
\* destination or set_json_file configured, for a tree of three records or more.
C15_Witness ==
    /\ json_file # None
    /\ ult.op = "actualizar_producto" /\ ult.ret
    /\ Len(disco[json_file[1]].datos) >= 3
    /\ \E i \in 1..Len(disco[json_file[1]].datos) :
           /\ disco[json_file[1]].datos[i].nombre = "a"
           /\ disco[json_file[1]].datos[i].cantidad = 1

\* C16: guardar_en_json with no explicit destination while no default target
\* is configured fails with the no-destination error, writes nothing, and
\* leaves the tree and the empty target configuration unchanged.
C16_GuardarSinDestino ==
    [][(ult'.op = "guardar_en_json" /\ json_file = None /\ GuardarEnJson(None))
          => /\ ult'.error
             /\ ult'.escrituras = 0 /\ disco' = disco
             /\ raiz' = raiz
             /\ json_file' = None
             /\ rotation_callback' = rotation_callback
             /\ rotations_performed' = rotations_performed]_vars

\* A save with no destination has just been refused for a tree of two records
\* or more.
C16_Witness ==
    /\ ult.op = "guardar_en_json" /\ ult.error
    /\ json_file = None /\ Tamano(raiz) >= 2

\* C17: buscar_por_categoria with a valid category returns exactly the records
\* of that category, sorted by key ascending, and its visited path holds every
\* key of the tree exactly once.
C17_BuscarPorCategoria ==
    (ult.op = "buscar_por_categoria" /\ ult.categoria \in categorias_validas) =>
        LET res == ult.ret.resultados
            camino == ult.ret.camino
        IN  /\ ~ult.ret.error
            /\ {res[i] : i \in 1..Len(res)}
                   = {r \in RegistrosDe(raiz) : r.categoria = ult.categoria}
            /\ EstrictamenteAscendente(res)
            /\ {camino[i] : i \in 1..Len(camino)} = Claves(raiz)
            /\ Len(camino) = Tamano(raiz)

\* A category search over a tree of four records returned some of them, not all.
C17_Witness ==
    /\ ult.op = "buscar_por_categoria" /\ ~ult.ret.error
    /\ Tamano(raiz) = 4
    /\ Len(ult.ret.resultados) \in {1, 2, 3}

\* C18: buscar_por_categoria with a category outside the four accepted ones
\* (e.g. "Juguetes") raises the invalid-category error and leaves the tree
\* unmodified, even when records are stored with that category.
C18_CategoriaInvalida ==
    [][\A c \in CategoriasConsulta :
          (/\ ult'.op = "buscar_por_categoria" /\ c \notin categorias_validas
           /\ BuscarPorCategoria(c))
          => /\ ult'.ret.error
             /\ ult'.ret.resultados = <<>>
             /\ raiz' = raiz
             /\ disco' = disco /\ json_file' = json_file]_vars

\* A search for a category outside the list was refused while records of that
\* category are stored.
C18_Witness ==
    /\ ult.op = "buscar_por_categoria" /\ ult.ret.error
    /\ \E r \in RegistrosDe(raiz) : r.categoria = ult.categoria

\* C19: after any sequence of inserts, deletes and updates, in_order_traversal
\* returns every stored record exactly once, in strictly ascending key order;
\* its length is the number of nodes.
C19_InOrderTraversal ==
    ult.op = "in_order_traversal" =>
        /\ Len(ult.ret) = Tamano(raiz)
        /\ EstrictamenteAscendente(ult.ret)
        /\ {ult.ret[i] : i \in 1..Len(ult.ret)} = RegistrosDe(raiz)

\* The traversal of a tree of four records, one of them updated, was taken.
C19_Witness ==
    /\ ult.op = "in_order_traversal" /\ Len(ult.ret) = 4
    /\ \E i \in 1..4 : ult.ret[i].nombre = "a" /\ ult.ret[i].cantidad = 1
    /\ \E i \in 1..4 : ult.ret[i].nombre = "b"

\* C20: a rotation emits exactly one event (kind, outer key, inner key), and
\* emits it before any pointer changes: when the event is out, the outer node
\* is still the root of the subtree and the inner node its child (the left
\* child for a right rotation, the right child for a left one); when the
\* rotation is over, the inner node is the parent of the outer node.
C20_EventoDeRotacion ==
    ult.op \in {"rotacion_derecha", "rotacion_izquierda"} =>
        /\ ult.pc = "notificar" => ult.eventos = <<>>
        /\ (ult.pc # "notificar" /\ rotation_callback) =>
               /\ Len(ult.eventos) = 1
               /\ ult.eventos[1].tipo = ult.op
        /\ (ult.pc = "rotar" /\ ult.eventos # <<>>) =>
               /\ ult.sub.clave = ult.eventos[1].outer
               /\ IF ult.op = "rotacion_derecha"
                  THEN ult.sub.izquierda.clave = ult.eventos[1].inner
                  ELSE ult.sub.derecha.clave = ult.eventos[1].inner
        /\ (ult.pc = "fin" /\ ult.eventos # <<>>) =>
               /\ ult.sub.clave = ult.eventos[1].inner
               /\ IF ult.op = "rotacion_derecha"
                  THEN ult.sub.derecha.clave = ult.eventos[1].outer
                  ELSE ult.sub.izquierda.clave = ult.eventos[1].outer

\* An observed right rotation of a node with two children, whose left child
\* has a right subtree to hand over, has run to its end.
C20_Witness ==
    /\ ult.op = "rotacion_derecha" /\ ult.pc = "fin" /\ Len(ult.eventos) = 1
    /\ ult.sub.derecha.izquierda # Nil /\ ult.sub.derecha.derecha # Nil

\* The tree after insertar(k, ...) of an absent key, and the tree after the
\* eliminar(k) that follows it at once.
TrasInsertar(arbol, k) ==
    _insertar(arbol, k, ProductoDe(k).nombre, ProductoDe(k).cantidad,
              ProductoDe(k).precio, ProductoDe(k).categoria).nodo

TrasInsertarYEliminar(arbol, k) == _eliminar(TrasInsertar(arbol, k), k).nodo

\* C21: deleting a key right after inserting it (key absent before, nothing in
\* between) leaves the key set and every record as before the insert, and
\* I1, I2, I3 hold afterwards, for every reachable tree.
C21_InsertarYEliminar ==
    \A k \in Keys \ Claves(raiz) :
        LET fin == TrasInsertarYEliminar(raiz, k)
        IN  /\ Claves(fin) = Claves(raiz)
            /\ in_order_traversal(fin) = in_order_traversal(raiz)
            /\ OrdenABB(fin) /\ BalanceAVL(fin) /\ AlturasI3(fin)

\* A tree for which some insert rotates, so that the delete that follows gives
\* back the same records in another shape.
C21_Witness ==
    /\ Tamano(raiz) = 2
    /\ \E k \in Keys \ Claves(raiz) :
           /\ TrasInsertar(raiz, k).clave # raiz.clave
           /\ TrasInsertarYEliminar(raiz, k) # raiz

\* The rebalancing case of _insertar that a list of rotation events comes
\* from, by the names the code gives the four cases.
CasoDe(rot) ==
    IF Len(rot) = 1 /\ rot[1].tipo = "rotacion_derecha" THEN "Izquierda Izquierda"
    ELSE IF Len(rot) = 1 /\ rot[1].tipo = "rotacion_izquierda" THEN "Derecha Derecha"
    ELSE IF Len(rot) = 2 /\ rot[1].tipo = "rotacion_izquierda"
                         /\ rot[2].tipo = "rotacion_derecha" THEN "Izquierda Derecha"
    ELSE IF Len(rot) = 2 /\ rot[1].tipo = "rotacion_derecha"
                         /\ rot[2].tipo = "rotacion_izquierda" THEN "Derecha Izquierda"
    ELSE "ninguno"

\* The tree that inserting first, then second, into an empty tree gives.
TrasDos(arbol, primera, segunda) ==
    /\ Claves(arbol) = {primera, segunda}
    /\ arbol.clave = primera

\* C22 as stated: inserting 10, 20, 30 into an empty tree triggers exactly one
\* Left-Left rebalancing rotation rooted at key 10 and ends with root key 20
\* and height 2.
C22_Escenario_10_20_30 ==
    [][\A prod \in Productos :
          (/\ ult'.op = "insertar" /\ TrasDos(raiz, 10, 20)
           /\ Insertar(30, prod.nombre, prod.cantidad, prod.precio, prod.categoria))
          => /\ CasoDe(ult'.rot) = "Izquierda Izquierda"
             /\ ult'.rot[1].outer = 10
             /\ raiz'.clave = 20
             /\ raiz'.altura = 2 /\ AlturaReal(raiz') = 2]_vars

\* C22 amended: inserting 10, 20, 30 into an empty tree triggers exactly one
\* Right-Right rebalancing, a single left rotation rooted at key 10 (inner key
\* 20), and ends with root key 20 and height 2.
C22_Escenario_10_20_30_DD ==
    [][\A prod \in Productos :
          (/\ ult'.op = "insertar" /\ TrasDos(raiz, 10, 20)
           /\ Insertar(30, prod.nombre, prod.cantidad, prod.precio, prod.categoria))
          => /\ CasoDe(ult'.rot) = "Derecha Derecha"
             /\ ult'.rot = <<Evento("rotacion_izquierda", 10, 20)>>
             /\ rotation_callback => ult'.eventos = ult'.rot
             /\ raiz'.clave = 20
             /\ raiz'.izquierda.clave = 10 /\ raiz'.derecha.clave = 30
             /\ raiz'.altura = 2 /\ AlturaReal(raiz') = 2]_vars

\* The third insert of the scenario 10, 20, 30 has returned, observed.
C22_Witness ==
    /\ ult.op = "insertar" /\ ult.eventos = <<Evento("rotacion_izquierda", 10, 20)>>
    /\ Claves(raiz) = {10, 20, 30}

\* C23: inserting 30, 10, 20 into an empty tree triggers exactly one Left-Right
\* rebalancing: a left rotation at key 10, then a right rotation at key 30
\* (two observer events in that order), and ends with root key 20.
C23_Escenario_30_10_20 ==
    [][\A prod \in Productos :
          (/\ ult'.op = "insertar" /\ TrasDos(raiz, 30, 10)
           /\ Insertar(20, prod.nombre, prod.cantidad, prod.precio, prod.categoria))
          => /\ CasoDe(ult'.rot) = "Izquierda Derecha"
             /\ ult'.rot = <<Evento("rotacion_izquierda", 10, 20),
                             Evento("rotacion_derecha", 30, 20)>>
             /\ rotation_callback => ult'.eventos = ult'.rot
             /\ raiz'.clave = 20
             /\ raiz'.izquierda.clave = 10 /\ raiz'.derecha.clave = 30]_vars

\* The third insert of the scenario 30, 10, 20 has returned, observed.
C23_Witness ==
    /\ ult.op = "insertar" /\ Len(ult.eventos) = 2
    /\ ult.eventos[1].outer = 10 /\ ult.eventos[2].outer = 30
    /\ Claves(raiz) = {10, 20, 30}

\* C24: for four records with prices 5, 12, 18 and 25, under every assignment
\* of distinct keys and every insertion order, buscar_por_rango_precios(10, 20)
\* returns exactly the records with prices 12 and 18.
C24_RangoEscenario ==
    (/\ ult.op = "buscar_por_rango_precios"
     /\ ult.precio_min = 10 /\ ult.precio_max = 20
     /\ Tamano(raiz) = 4
     /\ {r.precio : r \in RegistrosDe(raiz)} = PreciosEscenario) =>
        /\ Len(ult.ret.resultados) = 2
        /\ {ult.ret.resultados[i] : i \in 1..Len(ult.ret.resultados)}
               = {r \in RegistrosDe(raiz) : r.precio \in {12, 18}}

\* C25: cargar_desde_json takes the records of its source in any order: a
\* source of records with distinct keys, loaded into an empty engine, gives in
\* every order the in-order traversal that holds exactly its records in
\* ascending key order, and I1, I2, I3 hold after the load.
C25_CargaEnCualquierOrden ==
    [][\A datos \in FuentesPermutadas :
          (/\ ult'.op = "cargar_desde_json" /\ raiz = Nil
           /\ CargarDesdeJson(datos))
          => LET t == in_order_traversal(raiz')
             IN  /\ ~ult'.error
                 /\ Len(t) = Len(datos)
                 /\ {t[i] : i \in 1..Len(t)} = {datos[i] : i \in 1..Len(datos)}
                 /\ EstrictamenteAscendente(t)
                 /\ OrdenABB(raiz') /\ BalanceAVL(raiz') /\ AlturasI3(raiz')]_vars

\* A source of four records has been loaded into an empty engine and left
\* key 3 at the root: its records did not come in ascending key order.
C25_Witness ==
    /\ ult.op = "cargar_desde_json" /\ ~ult.error /\ ult.insertados = 4
    /\ Tamano(raiz) = 4 /\ raiz.clave = 3

\* The nodes that some eliminar(k) on the tree brings to their rebalancing
\* part, with their height recomputed as that part starts.
NodosPorBalancear(arbol) ==
    {[p EXCEPT !.altura = 1 + Max(obtener_altura(p.izquierda),
                                  obtener_altura(p.derecha))] :
        p \in {_eliminar_antes_de_balancear(s, k) :
                  s \in Subarboles(arbol), k \in ClavesEstructura} \ {Nil}}

EmpateIzquierda(n) == obtener_balance(n) > 1 /\ obtener_balance(n.izquierda) = 0
EmpateDerecha(n) == obtener_balance(n) < -1 /\ obtener_balance(n.derecha) = 0

\* C26: in eliminar a tie goes to the single rotation: a node with balance
\* above 1 whose left child has balance 0 gets exactly one right rotation at
\* the node (none of the child), a node with balance below -1 whose right
\* child has balance 0 exactly one left rotation at the node, and the subtree
\* returned satisfies I2 and I3.
C26_EmpateEnEliminar ==
    \A n \in NodosPorBalancear(raiz) :
        LET r == RebalanceoEliminar(n, <<>>, <<>>)
        IN  /\ EmpateIzquierda(n) =>
                /\ r.rot = <<Evento("rotacion_derecha", n.clave, n.izquierda.clave)>>
                /\ r.perf = <<Descripcion("Rotacion Derecha", n.clave)>>
                /\ r.nodo.clave = n.izquierda.clave
            /\ EmpateDerecha(n) =>
                /\ r.rot = <<Evento("rotacion_izquierda", n.clave, n.derecha.clave)>>
                /\ r.perf = <<Descripcion("Rotacion Izquierda", n.clave)>>
                /\ r.nodo.clave = n.derecha.clave
            /\ (EmpateIzquierda(n) \/ EmpateDerecha(n)) =>
                BalanceAVL(r.nodo) /\ AlturasI3(r.nodo)

\* A delete has just rebalanced with one right rotation a node whose left
\* child had balance 0: the subtree that child handed over is as high as the
\* one it kept.
C26_Witness ==
    /\ ult.op = "eliminar" /\ Len(ult.rot) = 1
    /\ ult.rot[1].tipo = "rotacion_derecha"
    /\ \E s \in Subarboles(raiz) :
          /\ s.clave = ult.rot[1].inner
          /\ s.derecha # Nil /\ s.derecha.clave = ult.rot[1].outer
          /\ s.derecha.izquierda # Nil /\ s.izquierda # Nil
          /\ s.derecha.izquierda.altura = s.izquierda.altura

\* The stored height of the node with this key (0: no such node), and the
\* keys of the nodes above it.
AlturaDe(arbol, clave) ==
    LET RECURSIVE baja(_)
        baja(nodo) == IF nodo = Nil THEN 0
                      ELSE IF clave = nodo.clave THEN nodo.altura
                      ELSE IF clave < nodo.clave THEN baja(nodo.izquierda)
                      ELSE baja(nodo.derecha)
    IN  baja(arbol)

Ancestros(arbol, clave) ==
    LET RECURSIVE baja(_)
        baja(nodo) == IF nodo = Nil \/ clave = nodo.clave THEN {}
                      ELSE IF clave < nodo.clave
                      THEN {nodo.clave} \cup baja(nodo.izquierda)
                      ELSE {nodo.clave} \cup baja(nodo.derecha)
    IN  baja(arbol)

\* C27: one insertar call performs at most one rebalancing case: it emits no
\* event, one event (single rotation) or two (double rotation: the child
\* first, then the node, around the same inner key), and every ancestor above
\* the rebalanced node keeps the height it had stored before the call.
C27_UnRebalanceoPorInsertar ==
    [][ult'.op = "insertar" =>
          LET rot == ult'.rot
          IN  /\ Len(rot) <= 2
              /\ rot # <<>> => CasoDe(rot) # "ninguno"
              /\ Len(rot) = 2 =>
                    /\ rot[2].inner = rot[1].inner
                    /\ rot[1].outer \in Claves(raiz) /\ rot[2].outer \in Claves(raiz)
                    /\ Ancestros(raiz, rot[1].outer)
                           = Ancestros(raiz, rot[2].outer) \cup {rot[2].outer}
              /\ rot # <<>> =>
                    \A a \in Ancestros(raiz, rot[Len(rot)].outer) :
                        AlturaDe(raiz', a) = AlturaDe(raiz, a)]_vars

\* An insert has rebalanced, with a double rotation, a node below the root:
\* the subtree it returned hangs from the root of a tree of height 3.
C27_Witness ==
    /\ ult.op = "insertar" /\ Len(ult.rot) = 2
    /\ Cardinality(Ancestros(raiz, ult.rot[2].inner)) = 1
    /\ raiz.altura = 3

\* The node with this key, with the subtree below it (Nil: no such node).
NodoDe(arbol, clave) ==
    LET RECURSIVE baja(_)
        baja(nodo) == IF nodo = Nil \/ clave = nodo.clave THEN nodo
                      ELSE IF clave < nodo.clave THEN baja(nodo.izquierda)
                      ELSE baja(nodo.derecha)
    IN  baja(arbol)

\* C28: the path buscar(key) returns is the descent from the root: it starts
\* with the root key, each next key is that of the child of the previous node
\* on the side the comparison with key chooses, no key comes twice, it is no
\* longer than the tree is high, and when key is present it ends with key.
C28_CaminoDeBuscar ==
    ult.op = "buscar" =>
        LET c == ult.ret.camino
            k == ult.clave
        IN  /\ raiz = Nil => c = <<>>
            /\ raiz # Nil => (c # <<>> /\ c[1] = raiz.clave)
            /\ \A i \in 1..Len(c) - 1 :
                  LET n == NodoDe(raiz, c[i])
                      hijo == IF k < n.clave THEN n.izquierda ELSE n.derecha
                  IN  k # n.clave /\ hijo # Nil /\ c[i + 1] = hijo.clave
            /\ \A i, j \in 1..Len(c) : i # j => c[i] # c[j]
            /\ Len(c) <= obtener_altura(raiz)
            /\ Len(c) <= AlturaReal(raiz)
            /\ k \in Claves(raiz) => c[Len(c)] = k

\* buscar has found a key three levels down, turning left and right.
C28_Witness ==
    /\ ult.op = "buscar" /\ ult.ret.resultado # Nil
    /\ Len(ult.ret.camino) = 3
    /\ ult.ret.camino[2] > ult.ret.camino[1]
    /\ ult.ret.camino[3] < ult.ret.camino[2]

\* The tree without its payload: keys, stored heights and shape.
RECURSIVE Estructura(_)
Estructura(nodo) ==
    IF nodo = Nil THEN Nil
    ELSE [clave |-> nodo.clave, altura |-> nodo.altura,
          izquierda |-> Estructura(nodo.izquierda),
          derecha |-> Estructura(nodo.derecha)]

\* What actualizar_producto(k, c, p), called on the tree antes with the disk d,
\* has to leave and return (a: what it did leave and return).
TrasActualizar(antes, d, a, k, c, p) ==
    IF k \in Claves(antes)
    THEN LET viejo == Registro(NodoDe(antes, k))
             nuevo == Registro(NodoDe(a.raiz, k))
         IN  /\ a.ret = TRUE
             /\ Estructura(a.raiz) = Estructura(antes)
             /\ RegistrosDe(a.raiz) \ {nuevo} = RegistrosDe(antes) \ {viejo}
             /\ nuevo.clave = k
             /\ nuevo.nombre = viejo.nombre
             /\ nuevo.categoria = viejo.categoria
             /\ nuevo.cantidad = (IF c = None THEN viejo.cantidad ELSE c[1])
             /\ nuevo.precio = (IF p = None THEN viejo.precio ELSE p[1])
    ELSE /\ a.ret = FALSE
         /\ a.raiz = antes
         /\ a.disco = d
         /\ a.escrituras = 0

\* C29: actualizar_producto on a present key overwrites the supplied fields
\* only (None leaves the field, 0 is applied) of the record with that key only,
\* returns True and keeps shape, stored heights, keys and the other records;
\* on an absent key it returns None, changes nothing and writes no snapshot.
\* Stated of the call made in every reachable state, with every argument.
C29_ActualizarProducto ==
    \A k \in Keys, c \in CantidadesNuevas, p \in PreciosNuevos :
        TrasActualizar(raiz, disco,
                       actualizar_producto(raiz, json_file, disco, k, c, p),
                       k, c, p)

\* An update has set the quantity of key 2 to 0 and left its price alone, in a
\* tree of three keys or more whose snapshot was rewritten.
C29_Witness ==
    /\ Tamano(raiz) >= 3
    /\ ult.op = "actualizar_producto" /\ ult.ret /\ ult.escrituras = 1
    /\ 2 \in Claves(raiz)
    /\ NodoDe(raiz, 2).cantidad = 0
    /\ NodoDe(raiz, 2).precio = ProductoDe(2).precio

\* C30: the delete action of the window checks that the key is in the tree
\* before it deletes: for a key that is not there it shows the message that
\* the key does not exist and never calls eliminar, so no snapshot is
\* rewritten and no success message is shown.
C30_DeleteNodeVerifica ==
    [][(/\ ult'.op = "delete_node"
        /\ ult'.clave # None
        /\ ult'.clave[1] \notin Claves(raiz))
       => /\ ult'.mensaje = "no_existe"
          /\ ~ult'.llamo_eliminar
          /\ ult'.escrituras = 0
          /\ disco' = disco]_vars

====
